---- MODULE Spec2Model ----
(***************************************************************************)
(* A model of tuifeed.py: the feed reader's run (main), its cache store    *)
(* (read_cache, write_cache), the feed fetcher (fetch_feed), the           *)
(* concurrent fetch orchestrator (fetch_feeds, a ThreadPoolExecutor) and   *)
(* the merge of fresh and cached articles.                                 *)
(*                                                                         *)
(* Time is counted in whole hours.  A datetime is a natural number, the    *)
(* ISO string of a datetime t is the one-element sequence <<t>>, and a     *)
(* string that datetime.fromisoformat rejects is any other sequence.       *)
(* A Python dict is a function from its keys; a missing key is a key       *)
(* outside its DOMAIN.                                                     *)
(*                                                                         *)
(* The clock stands still during a run and moves between runs.  The I/O    *)
(* that may fail is the I/O of write_cache (os.makedirs, open, json.dump)  *)
(* and of the fetches; os.remove at line 192 is taken to succeed.          *)
(*                                                                         *)
(* Spec is the whole program, run up to MaxRuns times over one cache       *)
(* directory.  SpecPool is fetch_feeds on feed lists longer than the       *)
(* worker cap of its executor: there the cap is 1..PoolCap, because a list *)
(* longer than MAX_WORKERS = 20 has too many interleavings to enumerate.   *)
(***************************************************************************)
EXTENDS Integers, Sequences, FiniteSets, TLC

(* ---------------------------------------------------------------- *)
(* Program constants (tuifeed.py, lines 14-19)                      *)
(* ---------------------------------------------------------------- *)
MAX_AGE_HOURS == 24

MAX_WORKERS == 20

NoLink == "No link"

NoTitle == "No title"

(* Python's None, as returned by dict.get for a missing key. *)
None == "<None>"

(* ---------------------------------------------------------------- *)
(* Bounds of the model                                              *)
(* ---------------------------------------------------------------- *)
\* runs of the program over the same cache directory
MaxRuns == 2

\* feeds in config.json
MaxFeeds == 2

\* entries in one feed document
MaxEntries == 1

\* worker caps tried by the worker-pool specification
PoolCap == 2

\* feeds of its feed lists above the worker cap
ExtraFeeds == 2

(* ---------------------------------------------------------------- *)
(* Helpers                                                          *)
(* ---------------------------------------------------------------- *)
SeqsUpTo(S, n) == UNION {[1..k -> S] : k \in 0..n}

RECURSIVE Concat(_)
Concat(ss) == IF ss = <<>> THEN <<>> ELSE Head(ss) \o Concat(Tail(ss))

Range(s) == {s[i] : i \in DOMAIN s}

\* dict.get(key, default)
Get(d, k, default) == IF k \in DOMAIN d THEN d[k] ELSE default

\* datetime.isoformat
isoformat(t) == <<t>>

\* datetime.fromisoformat succeeds on s
IsIso(s) == Len(s) = 1

\* datetime.fromisoformat
fromisoformat(s) == s[1]

(* ---------------------------------------------------------------- *)
(* Cache store: read_cache, write_cache (lines 28-62)               *)
(* ---------------------------------------------------------------- *)
\* The cache file: absent, a file json.load rejects, or a JSON document.
AbsentFile == [kind |-> "absent"]

\* What open(CACHE_FILE, 'w') leaves before json.dump has written:
\* an empty file, which json.load rejects.
TruncatedFile == [kind |-> "garbage"]

\* json.dump(cache_data, f): the document written by write_cache.
JsonFile(t, articles) ==
    [kind |-> "json", data |-> [timestamp |-> isoformat(t), articles |-> articles]]

\* AgeOk with < for <=.
AgeOkStrict(a, t) == t - fromisoformat(a["timestamp"]) < MAX_AGE_HOURS

AgeOk(a, t) == t - fromisoformat(a["timestamp"]) <= MAX_AGE_HOURS

\* The condition of the list comprehension of read_cache raises on article a:
\* a['timestamp'] is missing or unparseable, or the age test passes and
\* a['feed'] is missing ('and' evaluates its right side only then).
FilterRaises(a, t) ==
    \/ "timestamp" \notin DOMAIN a
    \/ ~IsIso(a["timestamp"])
    \/ AgeOk(a, t) /\ "feed" \notin DOMAIN a

\* Valid without the test of the feed name.
ValidAnyFeed(a, names, t) == AgeOk(a, t)

Valid(a, names, t) == AgeOk(a, t) /\ a["feed"] \in names

\* The body of the try of read_cache (lines 33-46): json.load raises on a
\* file that is no JSON document, the comprehension raises on an article
\* it cannot test; otherwise the articles that pass are returned.
read_cache_try(f, names, t) ==
    IF f.kind # "json" THEN [raised |-> TRUE, val |-> <<>>]
    ELSE LET cached == Get(f.data, "articles", <<>>)
         IN IF \E i \in DOMAIN cached : FilterRaises(cached[i], t)
            THEN [raised |-> TRUE, val |-> <<>>]
            ELSE [raised |-> FALSE, val |-> SelectSeq(cached, LAMBDA a : Valid(a, names, t))]

\* HandleReadError that lets the exception through.
HandleReadErrorReraise(r) == r

\* lines 47-49: except Exception prints the error and returns []
HandleReadError(r) == [raised |-> FALSE, val |-> <<>>]

\* read_cache as its caller sees it: an exception that leaves it, or the
\* returned list. Lines 30-31 return [] when the file does not exist.
read_cache_outcome(f, names, t) ==
    IF f.kind = "absent" THEN [raised |-> FALSE, val |-> <<>>]
    ELSE LET r == read_cache_try(f, names, t)
         IN IF r.raised THEN HandleReadError(r) ELSE r

\* read_cache(current_feed_names) on cache file f at time t
read_cache(f, names, t) == read_cache_outcome(f, names, t).val

(* ---------------------------------------------------------------- *)
(* Feed fetcher and entry normaliser: fetch_feed (lines 66-110)     *)
(* ---------------------------------------------------------------- *)
\* A feed of config.json that is a JSON object (has .get).
IsDict(feed) == "str" \notin DOMAIN feed

\* not x, for x a string or None
Falsy(x) == x = None \/ x = ""

\* published_parsed converts to a datetime
HasTime(entry) ==
    /\ "published_parsed" \in DOMAIN entry
    /\ Len(entry["published_parsed"]) = 1

published_time(entry) == entry["published_parsed"][1]

\* Kept that also drops the entries dated after t.
KeptNotAfter(entry, t) ==
    /\ HasTime(entry)
    /\ ~(t - published_time(entry) > MAX_AGE_HOURS)
    /\ published_time(entry) <= t

\* lines 93-101: the entry is not skipped by one of the three continue
Kept(entry, t) == HasTime(entry) /\ ~(t - published_time(entry) > MAX_AGE_HOURS)

\* MakeArticle with the title taken for the feed name.
MakeArticleTitleAsFeed(name, entry) ==
    [feed |-> Get(entry, "title", NoTitle),
     title |-> Get(entry, "title", NoTitle),
     link |-> Get(entry, "link", NoLink),
     timestamp |-> isoformat(published_time(entry))]

MakeArticle(name, entry) ==
    [feed |-> name,
     title |-> Get(entry, "title", NoTitle),
     link |-> Get(entry, "link", NoLink),
     timestamp |-> isoformat(published_time(entry))]

RECURSIVE Normalize(_, _, _)
Normalize(name, entries, t) ==
    IF entries = <<>> THEN <<>>
    ELSE IF Kept(Head(entries), t)
         THEN <<MakeArticle(name, Head(entries))>> \o Normalize(name, Tail(entries), t)
         ELSE Normalize(name, Tail(entries), t)

\* fetch_feed(feed) when the URL serves doc at time t: val is the list
\* returned; exc, the call raised instead of returning (feed.get on a feed
\* that is no dict, line 68); failed, the fetch failed (lines 80-86 or exc).
fetch_feed(feed, doc, t) ==
    IF ~IsDict(feed) THEN [exc |-> TRUE, failed |-> TRUE, val |-> <<>>]
    ELSE LET name == Get(feed, "name", None)
             url == Get(feed, "url", None)
         IN IF Falsy(name) \/ Falsy(url) THEN [exc |-> FALSE, failed |-> FALSE, val |-> <<>>]
            ELSE IF doc.kind = "error" THEN [exc |-> FALSE, failed |-> TRUE, val |-> <<>>]
            ELSE IF doc.kind = "bozo" THEN [exc |-> FALSE, failed |-> TRUE, val |-> <<>>]
            ELSE [exc |-> FALSE, failed |-> FALSE, val |-> Normalize(name, doc.entries, t)]

(* ---------------------------------------------------------------- *)
(* Merge of fresh and cached articles: main (lines 164-182)         *)
(* ---------------------------------------------------------------- *)
\* Admit without the test of seen_links.
AdmitNoSeen(a, seen, testFeed, names) ==
    /\ a["link"] # NoLink
    /\ (testFeed => a["feed"] \in names)

\* Admit without the test of the placeholder.
AdmitPlaceholder(a, seen, testFeed, names) ==
    /\ a["link"] \notin seen
    /\ (testFeed => a["feed"] \in names)

\* The condition of lines 170 and 176-180: the link is new and is not the
\* placeholder; the loop over the cached articles also tests the feed name.
Admit(a, seen, testFeed, names) ==
    /\ a["link"] \notin seen
    /\ a["link"] # NoLink
    /\ (testFeed => a["feed"] \in names)

\* One merge loop over articles, from the state m = [seen, merged].
RECURSIVE MergeLoop(_, _, _, _)
MergeLoop(articles, m, testFeed, names) ==
    IF articles = <<>> THEN m
    ELSE LET a == Head(articles)
         IN MergeLoop(Tail(articles),
                      IF Admit(a, m.seen, testFeed, names)
                      THEN [seen |-> m.seen \cup {a["link"]}, merged |-> Append(m.merged, a)]
                      ELSE m,
                      testFeed, names)

\* Merge with the cached articles taken first.
MergeCachedFirst(new, cached, names) ==
    MergeLoop(new,
              MergeLoop(cached, [seen |-> {}, merged |-> <<>>], TRUE, names),
              FALSE, names).merged

\* Merge that takes the fresh articles only.
MergeFreshOnly(new, cached, names) ==
    MergeLoop(new, [seen |-> {}, merged |-> <<>>], FALSE, names).merged

\* lines 164-182: the loop over new_articles, then the loop over
\* cached_articles
Merge(new, cached, names) ==
    MergeLoop(cached,
              MergeLoop(new, [seen |-> {}, merged |-> <<>>], FALSE, names),
              TRUE, names).merged

(* ---------------------------------------------------------------- *)
(* Selection: get_fzf_selection and the loop of main (200-217)      *)
(* ---------------------------------------------------------------- *)
\* f"{a['feed']} | {a['title']}"; the names and titles considered carry no
\* surrounding whitespace, so the strip() of line 142 returns the line as is
Display(a) == <<a["feed"], a["title"]>>

fzf_options_of(articles) == [i \in DOMAIN articles |-> Display(articles[i])]

\* lines 129-142: fzf prints the text of the line the user chose, line k
get_fzf_selection(options, k) == options[k]

\* The for loop of lines 209-217: the first article whose display string is
\* the selected one decides; its link is opened unless empty or "No link".
\* The result is the link handed to webbrowser.open, or None.
OpenedFor(articles, selected) ==
    IF \E i \in DOMAIN articles : Display(articles[i]) = selected
    THEN LET i == CHOOSE j \in DOMAIN articles :
                      /\ Display(articles[j]) = selected
                      /\ \A h \in 1..(j - 1) : Display(articles[h]) # selected
             link == articles[i]["link"]
         IN IF link # "" /\ link # NoLink THEN link ELSE None
    ELSE None

(* ---------------------------------------------------------------- *)
(* The environment: config.json and the documents the URLs serve    *)
(* ---------------------------------------------------------------- *)
FeedA == [name |-> "A", url |-> "uA"]

FeedB == [name |-> "B", url |-> "uB"]

\* a feed without a url: skipped by fetch_feed, its name still current
FeedNoUrl == [name |-> "B"]

\* a feed that is a JSON string, not an object: feed.get raises
FeedStr == [str |-> "uB"]

FeedRefs == {FeedA, FeedB, FeedNoUrl, FeedStr}

\* config.json: unreadable, or its "feeds" list
BadConfig == [ok |-> FALSE, feeds |-> <<>>]

Configs == {BadConfig} \cup {[ok |-> TRUE, feeds |-> fs] : fs \in SeqsUpTo(FeedRefs, MaxFeeds)}

ErrorDoc == [kind |-> "error"]

BozoDoc == [kind |-> "bozo"]

\* The entries a feed may carry at time t.
Entries(t) ==
    { [title |-> "T1", link |-> "x", published_parsed |-> <<t>>],
      [title |-> "T0", link |-> "x", published_parsed |-> <<t - 1>>],
      [title |-> "T1", link |-> "y", published_parsed |-> <<t - MAX_AGE_HOURS>>],
      [title |-> "T0", link |-> "y", published_parsed |-> <<t - MAX_AGE_HOURS - 1>>],
      [title |-> "T0", published_parsed |-> <<t>>],
      [title |-> "T1", link |-> "", published_parsed |-> <<t + 1>>],
      [link |-> "x"],
      [title |-> "T0", link |-> "y", published_parsed |-> <<>>] }

\* A request fails, or serves a malformed document, or serves a document
\* with one fresh entry.
OneDocs(t) ==
    {ErrorDoc, BozoDoc,
     [kind |-> "feed",
      entries |-> << [title |-> "T1", link |-> "x", published_parsed |-> <<t>>] >>]}

\* The documents served to fetch_feeds taken alone: those of OneDocs, or a
\* document with two fresh entries.
PoolDocs(t) ==
    OneDocs(t)
    \cup {[kind |-> "feed",
           entries |-> << [title |-> "T1", link |-> "x", published_parsed |-> <<t>>],
                          [title |-> "T0", link |-> "y", published_parsed |-> <<t - 1>>] >>]}

Docs(t) == {ErrorDoc, BozoDoc}
           \cup {[kind |-> "feed", entries |-> es] : es \in SeqsUpTo(Entries(t), MaxEntries)}

(* ---------------------------------------------------------------- *)
(* State                                                            *)
(* ---------------------------------------------------------------- *)
VARIABLES
    now,                \* datetime.now(), in hours
    run,                \* number of the current run of the program
    net,                \* the documents the URLs may serve: "up", all of Docs; "pool", PoolDocs
    config,             \* config.json
    cacheDir,           \* CACHE_DIR exists
    cacheFile,          \* CACHE_FILE
    file0,              \* CACHE_FILE as it was when the run started
    pc,                 \* position of the main thread
    wcall,              \* the call of write_cache in progress: 1 (line 185) or 2 (line 189)
    write_error,        \* the last call of write_cache printed "Error writing cache"
    feeds,              \* main: feeds
    current_feed_names, \* main: current_feed_names
    cached_articles,    \* main: cached_articles
    max_workers,        \* executor: max_workers
    futures,            \* fetch_feeds: futures, one record per submitted feed
    queue,              \* executor: work queue (indices of futures)
    threads,            \* executor: number of worker threads
    idle,               \* executor: idle semaphore
    results,            \* fetch_feeds: results
    collected,          \* fetch_feeds: futures already passed by the for loop
    new_articles,       \* main: new_articles
    merged_articles,    \* main: merged_articles
    opened,             \* the link last handed to webbrowser.open, or None
    picked,             \* the line of the fzf list the user chose last, 0 for none
    committed0          \* the run before ended with its snapshot of the cache on disk

vars == <<now, run, net, config, cacheDir, cacheFile, file0, committed0, pc, wcall, write_error,
          feeds, current_feed_names, cached_articles, max_workers, futures, queue,
          threads, idle, results, collected, new_articles, merged_articles, opened, picked>>

env == <<now, run, net, config, file0, committed0, max_workers>>

disk == <<cacheDir, cacheFile>>

pool == <<futures, queue, threads, idle, results, collected>>

locals == <<feeds, current_feed_names, cached_articles, new_articles, merged_articles>>

\* The memory of a process that has just started.
Fresh ==
    /\ pc = "load_config"
    /\ wcall = 0
    /\ write_error = FALSE
    /\ feeds = <<>>
    /\ current_feed_names = {}
    /\ cached_articles = <<>>
    /\ futures = <<>>
    /\ queue = <<>>
    /\ threads = 0
    /\ idle = 0
    /\ results = <<>>
    /\ collected = 0
    /\ new_articles = <<>>
    /\ merged_articles = <<>>
    /\ opened = None
    /\ picked = 0

StartTime == MAX_AGE_HOURS + 2

\* Cache files found by the first run: none, or one damaged by hand.
InitFiles(t) ==
    { AbsentFile,
      TruncatedFile,
      JsonFile(t, << [feed |-> "A", title |-> "T0", link |-> "x", timestamp |-> <<>>] >>),
      JsonFile(t, << [title |-> "T0", link |-> "x", timestamp |-> isoformat(t)] >>),
      JsonFile(t, << [title |-> "T0", link |-> "x", timestamp |-> isoformat(t - MAX_AGE_HOURS - 1)],
                     [feed |-> "A", title |-> "T0", link |-> "y", timestamp |-> isoformat(t)] >>) }

Init ==
    /\ now = StartTime
    /\ run = 1
    /\ net = "up"
    /\ config \in Configs
    /\ cacheFile \in InitFiles(now)
    /\ cacheDir \in {cacheFile # AbsentFile, TRUE}
    /\ file0 = cacheFile
    /\ committed0 = FALSE
    /\ max_workers = MAX_WORKERS
    /\ Fresh

(* ---------------------------------------------------------------- *)
(* main (lines 146-217)                                             *)
(* ---------------------------------------------------------------- *)
\* line 156
NamesOf(fs) == {fs[i]["name"] : i \in {j \in DOMAIN fs : "name" \in DOMAIN fs[j]}}

\* lines 148-156
LoadConfig ==
    /\ pc = "load_config"
    /\ IF ~config.ok
       THEN /\ pc' = "done"
            /\ UNCHANGED <<feeds, current_feed_names>>
       ELSE /\ pc' = "read_cache"
            /\ feeds' = config.feeds
            /\ current_feed_names' = NamesOf(config.feeds)
    /\ UNCHANGED <<env, disk, pool, wcall, write_error, cached_articles, new_articles,
                   merged_articles, opened, picked>>

\* line 159
ReadCache ==
    /\ pc = "read_cache"
    /\ LET r == read_cache_outcome(cacheFile, current_feed_names, now)
       IN IF r.raised
          THEN pc' = "crashed" /\ UNCHANGED cached_articles
          ELSE pc' = "submit" /\ cached_articles' = r.val
    /\ UNCHANGED <<env, disk, pool, wcall, write_error, feeds, current_feed_names,
                   new_articles, merged_articles, opened, picked>>

(* ---------------------------------------------------------------- *)
(* fetch_feeds (lines 113-126) and the ThreadPoolExecutor           *)
(* ---------------------------------------------------------------- *)
Running == {i \in DOMAIN futures : futures[i].state = "running"}

\* MayStartThread without the cap.
MayStartThreadAlways(n, cap) == TRUE

\* executor.submit starts a thread only below the cap
MayStartThread(n, cap) == n < cap

\* Done that does not wait for the worker.
DoneAtOnce(f) == TRUE

\* The future holds its outcome.
Done(f) == f.state = "finished"

\* line 119, one executor.submit: the work item is queued and, when no
\* worker is idle and fewer than max_workers threads exist, a thread starts.
Submit ==
    /\ pc = "submit"
    /\ IF Len(futures) < Len(feeds)
       THEN /\ futures' = Append(futures, [state |-> "pending", exc |-> FALSE,
                                          failed |-> FALSE, val |-> <<>>, calls |-> 0])
            /\ queue' = Append(queue, Len(futures) + 1)
            /\ IF idle > 0
               THEN idle' = idle - 1 /\ UNCHANGED threads
               ELSE /\ threads' = IF MayStartThread(threads, max_workers)
                                  THEN threads + 1 ELSE threads
                    /\ UNCHANGED idle
            /\ UNCHANGED pc
       ELSE /\ pc' = "collect"
            /\ UNCHANGED <<futures, queue, threads, idle>>
    /\ UNCHANGED <<env, disk, wcall, write_error, locals, results, collected, opened, picked>>

\* a worker thread that runs no work item takes the next one off the queue
\* and calls fetch_feed
WorkerStart ==
    /\ queue # <<>>
    /\ Cardinality(Running) < threads
    /\ futures' = [futures EXCEPT ![Head(queue)].state = "running",
                                  ![Head(queue)].calls = @ + 1]
    /\ queue' = Tail(queue)
    /\ UNCHANGED <<env, disk, pc, wcall, write_error, locals, threads, idle, results,
                   collected, opened, picked>>

\* WorkerFinish in which the worker saves what it fetched in the cache file.
WorkerFinishSaves(i) ==
    /\ futures[i].state = "running"
    /\ \E doc \in (IF net = "up" THEN Docs(now) ELSE PoolDocs(now)) :
          LET r == fetch_feed(feeds[i], doc, now)
          IN /\ futures' = [futures EXCEPT ![i].state = "finished",
                                           ![i].exc = r.exc,
                                           ![i].failed = r.failed,
                                           ![i].val = r.val]
             /\ cacheFile' = IF r.val = <<>> THEN cacheFile ELSE JsonFile(now, r.val)
    /\ idle' = idle + 1
    /\ UNCHANGED <<env, cacheDir, pc, wcall, write_error, locals, queue, threads, results,
                   collected, opened, picked>>

\* fetch_feed returns or raises in its worker; the future holds the outcome
WorkerFinish(i) ==
    /\ futures[i].state = "running"
    /\ \E doc \in (IF net = "up" THEN Docs(now) ELSE PoolDocs(now)) :
          LET r == fetch_feed(feeds[i], doc, now)
          IN futures' = [futures EXCEPT ![i].state = "finished",
                                        ![i].exc = r.exc,
                                        ![i].failed = r.failed,
                                        ![i].val = r.val]
    /\ idle' = idle + 1
    /\ UNCHANGED <<env, disk, pc, wcall, write_error, locals, queue, threads, results,
                   collected, opened, picked>>

\* Extend that loses the results collected so far when a future raises.
ExtendDropOnError(res, f) == IF f.exc THEN <<>> ELSE res \o f.val

\* Extend that puts the articles of a future before those collected so far.
ExtendPrepend(res, f) == IF f.exc THEN res ELSE f.val \o res

\* lines 121-124: results.extend(future.result()), an exception is reported
Extend(res, f) == IF f.exc THEN res ELSE res \o f.val

\* lines 120-124, one iteration: future.result() blocks until the future is
\* finished
Collect ==
    /\ pc = "collect"
    /\ collected < Len(futures)
    /\ Done(futures[collected + 1])
    /\ results' = Extend(results, futures[collected + 1])
    /\ collected' = collected + 1
    /\ UNCHANGED <<env, disk, pc, wcall, write_error, locals, futures, queue, threads,
                   idle, opened, picked>>

\* the end of the with block (shutdown waits for the workers) and line 126;
\* main line 162
FetchReturn ==
    /\ pc = "collect"
    /\ collected = Len(futures)
    /\ \A i \in DOMAIN futures : Done(futures[i])
    /\ new_articles' = results
    /\ pc' = "merge"
    /\ UNCHANGED <<env, disk, pool, wcall, write_error, feeds, current_feed_names,
                   cached_articles, merged_articles, opened, picked>>

\* lines 164-182, and the call of line 185
MergeArticles ==
    /\ pc = "merge"
    /\ merged_articles' = Merge(new_articles, cached_articles, current_feed_names)
    /\ pc' = "makedirs"
    /\ wcall' = 1
    /\ write_error' = FALSE
    /\ UNCHANGED <<env, disk, pool, feeds, current_feed_names, cached_articles,
                   new_articles, opened, picked>>

(* ---------------------------------------------------------------- *)
(* write_cache(merged_articles) (lines 51-62), called at 185, 189   *)
(* ---------------------------------------------------------------- *)
AfterWrite == IF wcall = 1 THEN "cleanup" ELSE "check_empty"

\* line 53: os.makedirs(CACHE_DIR, exist_ok=True) is outside the try; it
\* succeeds when the directory exists, creates it, or raises
WriteMakedirs ==
    /\ pc = "makedirs"
    /\ \/ cacheDir' = TRUE /\ pc' = "open"
       \/ ~cacheDir /\ cacheDir' = FALSE /\ pc' = "crashed"
    /\ UNCHANGED <<env, cacheFile, pool, wcall, write_error, locals, opened, picked>>

\* line 59: open(CACHE_FILE, 'w') truncates the file, or raises (caught at 61)
WriteOpen ==
    /\ pc = "open"
    /\ \/ cacheFile' = TruncatedFile /\ pc' = "dump" /\ UNCHANGED write_error
       \/ UNCHANGED cacheFile /\ pc' = AfterWrite /\ write_error' = TRUE
    /\ UNCHANGED <<env, cacheDir, pool, wcall, locals, opened, picked>>

\* line 60: json.dump writes the document, or raises part-way (caught at 61)
WriteDump ==
    /\ pc = "dump"
    /\ \/ cacheFile' = JsonFile(now, merged_articles) /\ UNCHANGED write_error
       \/ UNCHANGED cacheFile /\ write_error' = TRUE
    /\ pc' = AfterWrite
    /\ UNCHANGED <<env, cacheDir, pool, wcall, locals, opened, picked>>

\* Cleanup that leaves the file of an empty merge in place.
CleanupNoRemove ==
    /\ pc = "cleanup"
    /\ IF merged_articles # <<>>
       THEN /\ pc' = "makedirs"
            /\ wcall' = 2
            /\ write_error' = FALSE
       ELSE /\ pc' = "check_empty"
            /\ UNCHANGED <<wcall, write_error>>
    /\ UNCHANGED <<env, disk, pool, locals, opened, picked>>

\* lines 188-193
Cleanup ==
    /\ pc = "cleanup"
    /\ IF merged_articles # <<>>
       THEN /\ pc' = "makedirs"
            /\ wcall' = 2
            /\ write_error' = FALSE
            /\ UNCHANGED cacheFile
       ELSE /\ cacheFile' = AbsentFile
            /\ pc' = "check_empty"
            /\ UNCHANGED <<wcall, write_error>>
    /\ UNCHANGED <<env, cacheDir, pool, locals, opened, picked>>

\* lines 196-201
CheckEmpty ==
    /\ pc = "check_empty"
    /\ pc' = IF merged_articles = <<>> THEN "done" ELSE "select"
    /\ UNCHANGED <<env, disk, pool, wcall, write_error, locals, opened, picked>>

\* lines 203-217, one iteration with a selection made in fzf
Select ==
    /\ pc = "select"
    /\ \E k \in DOMAIN merged_articles :
          LET selected == get_fzf_selection(fzf_options_of(merged_articles), k)
          IN /\ opened' = OpenedFor(merged_articles, selected)
             /\ picked' = k
    /\ UNCHANGED <<env, disk, pool, pc, wcall, write_error, locals>>

\* lines 204-207: fzf reports no selection
Exit ==
    /\ pc = "select"
    /\ pc' = "done"
    /\ UNCHANGED <<env, disk, pool, wcall, write_error, locals, opened, picked>>

\* The program is started again, later, over the same cache directory.
NextRun ==
    /\ pc \in {"done", "crashed"}
    /\ run < MaxRuns
    /\ run' = run + 1
    /\ \E dt \in {1, MAX_AGE_HOURS} : now' = now + dt
    /\ config' \in Configs
    /\ file0' = cacheFile
    /\ committed0' = (config.ok /\ pc = "done" /\ cacheFile = JsonFile(now, merged_articles))
    /\ pc' = "load_config"
    /\ wcall' = 0 /\ write_error' = FALSE /\ feeds' = <<>> /\ current_feed_names' = {}
    /\ cached_articles' = <<>> /\ futures' = <<>> /\ queue' = <<>>
    /\ threads' = 0 /\ idle' = 0 /\ results' = <<>> /\ collected' = 0
    /\ new_articles' = <<>> /\ merged_articles' = <<>> /\ opened' = None /\ picked' = 0
    /\ UNCHANGED <<disk, net, max_workers>>

Next ==
    \/ LoadConfig
    \/ ReadCache
    \/ Submit
    \/ WorkerStart
    \/ \E i \in DOMAIN futures : WorkerFinish(i)
    \/ Collect
    \/ FetchReturn
    \/ MergeArticles
    \/ WriteMakedirs
    \/ WriteOpen
    \/ WriteDump
    \/ Cleanup
    \/ CheckEmpty
    \/ Select
    \/ Exit
    \/ NextRun

Spec == Init /\ [][Next]_vars

(* ---------------------------------------------------------------- *)
(* fetch_feeds alone, on feed lists longer than the worker cap      *)
(* ---------------------------------------------------------------- *)
\* Feed lists of up to n feeds, some of them no JSON objects.
PoolFeedLists(n) == UNION {[1..k -> {FeedA, FeedStr}] : k \in 1..n}

InitPool ==
    /\ now = StartTime
    /\ run = MaxRuns
    /\ net = "pool"
    /\ max_workers \in 1..PoolCap
    /\ \E fs \in PoolFeedLists(max_workers + ExtraFeeds) : config = [ok |-> TRUE, feeds |-> fs]
    /\ cacheFile = AbsentFile
    /\ cacheDir = FALSE
    /\ file0 = cacheFile
    /\ committed0 = FALSE
    /\ Fresh

NextPool ==
    \/ LoadConfig
    \/ ReadCache
    \/ Submit
    \/ WorkerStart
    \/ \E i \in DOMAIN futures : WorkerFinish(i)
    \/ Collect
    \/ FetchReturn

SpecPool == InitPool /\ [][NextPool]_vars

(* ---------------------------------------------------------------- *)
(* Properties                                                       *)
(* ---------------------------------------------------------------- *)
Names == {"A", "B"}

\* Times of a later read of the cache.
ReadTimes == {now, now + 1, now + MAX_AGE_HOURS, now + MAX_AGE_HOURS + 1}

Links(articles) == {articles[i]["link"] : i \in DOMAIN articles}

\* main has computed merged_articles.
Merged == config.ok /\ pc \notin {"load_config", "read_cache", "submit", "collect", "merge"}

\* The positions of main where the cache file has just got its content:
\* every content the file ever has is its content in one of them.
FilePcs == {"load_config", "dump", "cleanup", "check_empty"}

\* Article a is inside the freshness window at time t.
InWindow(a, t) == t - a["timestamp"][1] <= MAX_AGE_HOURS

\* A call of write_cache has returned without an I/O error, and the file
\* has not been removed since.
Written ==
    /\ config.ok
    /\ ~write_error
    /\ \/ pc = "cleanup"
       \/ pc \in {"check_empty", "select", "done"} /\ wcall = 2

\* The commit of main (lines 185-193) has been made without an I/O error.
Committed ==
    /\ config.ok
    /\ ~write_error
    /\ pc \in {"check_empty", "select", "done"}

\* The first article of articles with link l.
FirstWith(articles, l) ==
    articles[CHOOSE i \in DOMAIN articles :
                 /\ articles[i]["link"] = l
                 /\ \A h \in 1..(i - 1) : articles[h]["link"] # l]

\* C1: no two articles of merged_articles have the same link, whatever feeds
\* the fresh and the cached articles come from.
C1_DedupByLink ==
    \A i, j \in DOMAIN merged_articles :
        i # j => merged_articles[i]["link"] # merged_articles[j]["link"]

\* A merge of two fresh articles of different feeds and a cached article that
\* all carry one link.
C1_Witness ==
    /\ Merged
    /\ \E i, j \in DOMAIN new_articles, k \in DOMAIN cached_articles :
          /\ i < j
          /\ new_articles[i]["link"] = new_articles[j]["link"]
          /\ new_articles[i]["feed"] # new_articles[j]["feed"]
          /\ cached_articles[k]["link"] = new_articles[i]["link"]
          /\ new_articles[i]["link"] \in Links(merged_articles)

\* C2: when a link occurs in the fresh and in the cached articles, the one
\* article merged_articles retains for it is the first fresh article with
\* that link, with its feed, title and timestamp.
C2_FreshWins ==
    Merged =>
        \A l \in Links(new_articles) \cap Links(cached_articles) :
            /\ l # NoLink => \E k \in DOMAIN merged_articles : merged_articles[k]["link"] = l
            /\ \A k \in DOMAIN merged_articles :
                   merged_articles[k]["link"] = l
                       => merged_articles[k] = FirstWith(new_articles, l)

\* A merge where the cached article of a link differs from the fresh one in
\* title, timestamp and feed.
C2_Witness ==
    /\ Merged
    /\ \E i \in DOMAIN new_articles, k \in DOMAIN cached_articles :
          /\ new_articles[i]["link"] = cached_articles[k]["link"]
          /\ new_articles[i]["link"] \in Links(merged_articles)
          /\ new_articles[i]["title"] # cached_articles[k]["title"]
          /\ new_articles[i]["timestamp"] # cached_articles[k]["timestamp"]
          /\ new_articles[i]["feed"] # cached_articles[k]["feed"]

\* C3: read_cache returns no article older than now minus the freshness
\* window and no article of a feed outside the names it is given: for the
\* read of main, and for a read of the cache file of any state with any set
\* of names at any later time.
C3_ReadFilter ==
    /\ \A i \in DOMAIN cached_articles :
          /\ fromisoformat(cached_articles[i]["timestamp"]) >= now - MAX_AGE_HOURS
          /\ cached_articles[i]["feed"] \in current_feed_names
    /\ pc \in FilePcs =>
          \A names \in SUBSET Names, t \in ReadTimes :
              LET r == read_cache(cacheFile, names, t)
              IN \A i \in DOMAIN r :
                     /\ fromisoformat(r[i]["timestamp"]) >= t - MAX_AGE_HOURS
                     /\ r[i]["feed"] \in names

\* The read of a second run whose configuration has lost a feed: the cache
\* holds an article of that feed inside the window, and the read returns
\* other articles.
C3_Witness ==
    /\ run = 2
    /\ pc = "submit"
    /\ cacheFile.kind = "json"
    /\ cached_articles # <<>>
    /\ \E i \in DOMAIN cacheFile.data.articles :
          LET a == cacheFile.data.articles[i]
          IN /\ AgeOk(a, now)
             /\ a["feed"] \notin current_feed_names

\* C4: after write_cache(merged_articles) has returned without an I/O
\* error, read_cache with any names at any later time returns, in the
\* written order and unchanged in feed, title, link and timestamp, exactly
\* the written articles that are inside the freshness window then and whose
\* feed is among the names.
C4_RoundTrip ==
    Written =>
        \A names \in SUBSET Names, t \in ReadTimes :
            read_cache(cacheFile, names, t)
                = SelectSeq(merged_articles,
                            LAMBDA a : InWindow(a, t) /\ a["feed"] \in names)

\* A written list of two or more articles of which a later read returns
\* some and drops others, one of the written articles being on the edge of
\* the window.
C4_Witness ==
    /\ Written
    /\ wcall = 2
    /\ Len(merged_articles) >= 2
    /\ \E i \in DOMAIN merged_articles :
          now - merged_articles[i]["timestamp"][1] = MAX_AGE_HOURS
    /\ \E names \in SUBSET Names, t \in ReadTimes :
          /\ read_cache(cacheFile, names, t) # <<>>
          /\ read_cache(cacheFile, names, t) # merged_articles

\* C5: once the merge output is committed without an I/O error, a read of
\* the cache with the same feed names, at any later time at which every
\* merged article is inside the freshness window, returns the links of the
\* merge output and no others.
C5_MergeOutputSurvives ==
    Committed =>
        \A t \in ReadTimes :
            (\A i \in DOMAIN merged_articles : InWindow(merged_articles[i], t))
                => Links(read_cache(cacheFile, current_feed_names, t))
                       = Links(merged_articles)

\* A committed merge output that holds a fresh article and an article that
\* only the cache had.
C5_Witness ==
    /\ Committed
    /\ wcall = 2
    /\ \E i, j \in DOMAIN merged_articles :
          /\ merged_articles[i] \in Range(new_articles)
          /\ merged_articles[j] \notin Range(new_articles)
          /\ merged_articles[j] \in Range(cached_articles)
    /\ Links(read_cache(cacheFile, current_feed_names, now)) = Links(merged_articles)

\* C6: a run that has merged to the empty list ends with no cache file.
C6_EmptyMergeClears ==
    (config.ok /\ pc \in {"done", "crashed"} /\ merged_articles = <<>>)
        => cacheFile = AbsentFile

\* A run that started with a cache file holding a snapshot and has ended
\* with an empty merge.
C6_Witness ==
    /\ config.ok
    /\ pc = "done"
    /\ merged_articles = <<>>
    /\ file0.kind = "json"
    /\ cacheFile = AbsentFile

\* One step of fetch_feeds or of one of its workers.
FetchStep ==
    \/ Submit
    \/ WorkerStart
    \/ \E i \in DOMAIN futures : WorkerFinish(i)
    \/ Collect
    \/ FetchReturn

\* Every feed has been submitted and its fetch has completed.
AllFetched ==
    /\ Len(futures) = Len(feeds)
    /\ \A i \in DOMAIN futures : futures[i].state = "finished"

\* C7: whichever fetches fail, by a transport error, a bad status, a
\* malformed document or an exception raised in the worker, fetch_feeds is
\* never stuck, and what it returns is the articles of the fetches that
\* succeeded, all of them, feed after feed, and nothing of a failed fetch.
C7_PartialResults ==
    /\ \A i \in DOMAIN futures :
          /\ futures[i].failed => futures[i].val = <<>>
          /\ \A k \in DOMAIN futures[i].val : futures[i].val[k]["feed"] = feeds[i]["name"]
    /\ pc \in {"submit", "collect"} => ENABLED FetchStep
    /\ pc = "merge" =>
          /\ AllFetched
          /\ new_articles = Concat([i \in DOMAIN futures |->
                                       IF futures[i].failed THEN <<>> ELSE futures[i].val])

\* fetch_feeds has returned from three feeds: the fetch of the second
\* raised in its worker, the first and the third succeeded with articles.
C7_Witness ==
    /\ pc = "merge"
    /\ Len(futures) = 3
    /\ futures[1].val # <<>>
    /\ futures[2].exc
    /\ futures[3].val # <<>>
    /\ Len(new_articles) = Len(futures[1].val) + Len(futures[3].val)

\* C8: no more fetch_feed calls run at the same time than the worker cap of
\* the executor allows, however long the feed list, and fetch_feed is
\* called once for every feed, never twice.
C8_WorkerCap ==
    /\ Cardinality(Running) <= max_workers
    /\ max_workers <= MAX_WORKERS
    /\ \A i \in DOMAIN futures : futures[i].calls <= 1
    /\ pc = "merge" =>
          /\ Len(futures) = Len(feeds)
          /\ \A i \in DOMAIN futures : futures[i].calls = 1

\* A feed list longer than the cap: as many calls run as the cap allows
\* while a submitted feed waits in the queue.
C8_Witness ==
    /\ Len(feeds) > max_workers
    /\ Cardinality(Running) = max_workers
    /\ queue # <<>>

\* The positions of main in the merge and in the write or removal of the
\* cache file.
MergeWritePcs == {"merge", "makedirs", "open", "dump", "cleanup"}

\* C9 (as amended): the merge and the write or removal of the cache file
\* happen only after every submitted fetch has completed; the cache read
\* happens before any fetch is submitted; so no step on the cache runs
\* beside a fetch.
C9_Barrier ==
    /\ pc \in MergeWritePcs => AllFetched /\ queue = <<>> /\ Running = {}
    /\ pc = "read_cache" => futures = <<>>
    /\ futures # <<>> /\ ~AllFetched => pc \in {"submit", "collect"}

\* The merge is about to run after two fetches that have both completed.
C9_Witness ==
    /\ pc = "merge"
    /\ Len(futures) = 2
    /\ AllFetched
    /\ cached_articles # <<>>
    /\ new_articles # <<>>

\* C9 (as claimed): the cache read, too, happens only after every fetch
\* worker has completed.
C9_ReadAfterFetch ==
    pc \in {"read_cache"} \cup MergeWritePcs => AllFetched

\* C10 (as claimed): while write_cache runs and after it, the cache file is
\* the complete snapshot of before the run or the complete new snapshot.
C10_AtomicReplace ==
    pc \in {"makedirs", "open", "dump", "cleanup"}
        => cacheFile \in {file0, JsonFile(now, merged_articles)}

(* ---------------------------------------------------------------- *)
(* C11                                                              *)
(* ---------------------------------------------------------------- *)
\* The articles of a list whose link is the placeholder.
Placeholders(articles) == SelectSeq(articles, LAMBDA a : a["link"] = NoLink)

\* C11, as stated: every article with the "No link" placeholder that is given
\* to the merge, fresh or cached, is in merged_articles, so k of them in
\* give k of them out.
C11_PlaceholdersRetained ==
    Merged => Len(Placeholders(merged_articles))
                 = Len(Placeholders(new_articles)) + Len(Placeholders(cached_articles))

\* C11, amended: no article with the "No link" placeholder is in
\* merged_articles; the merge drops every one of them, fresh or cached, and
\* keeps the other articles it is given.
C11_PlaceholdersDropped ==
    Merged => /\ Placeholders(merged_articles) = <<>>
              /\ Links(merged_articles) = Links(new_articles \o cached_articles) \ {NoLink}

C11_Witness ==
    /\ Merged
    /\ Placeholders(new_articles) # <<>>
    /\ merged_articles # <<>>

(* ---------------------------------------------------------------- *)
(* C12                                                              *)
(* ---------------------------------------------------------------- *)
\* C12, as stated: no failure inside write_cache, the failure to create the
\* cache directory included, ends the run; a run whose configuration was
\* loaded is never ended by an exception.
C12_WriteFailureRecovered == config.ok => pc # "crashed"

(* ---------------------------------------------------------------- *)
(* C13                                                              *)
(* ---------------------------------------------------------------- *)
\* The articles stored in cache file f.
Stored(f) == IF f.kind = "json" THEN Range(Get(f.data, "articles", <<>>)) ELSE {}

NoTimestamp(a) == "timestamp" \notin DOMAIN a \/ Len(a["timestamp"]) = 0

NoFeed(a) == "feed" \notin DOMAIN a

\* C13, as stated: read_cache never raises, and on a file that is absent,
\* is no JSON document or holds an article lacking a feed or a parseable
\* timestamp it returns the empty list, whatever the feed names and the
\* time of the read.
C13_MalformedReadsEmpty ==
    pc \in FilePcs =>
        \A names \in SUBSET Names, t \in ReadTimes :
            LET r == read_cache_outcome(cacheFile, names, t)
            IN /\ ~r.raised
               /\ (\/ cacheFile.kind # "json"
                   \/ \E a \in Stored(cacheFile) : NoTimestamp(a) \/ NoFeed(a))
                  => r.val = <<>>

\* C13, amended: read_cache never raises to its caller and leaves the cache
\* file as it is. It returns the empty list when the file is absent, is no
\* JSON document, or holds an article lacking a parseable timestamp or an
\* article within the age window lacking a feed. An article lacking a feed
\* that is older than the window is left out like any expired article and
\* does not empty the result.
C13_ReadNeverRaises ==
    /\ pc = "crashed" => wcall >= 1
    /\ (pc = "submit" /\ futures = <<>>) => cacheFile = file0
    /\ pc \in FilePcs =>
          \A names \in SUBSET Names, t \in ReadTimes :
              LET r == read_cache_outcome(cacheFile, names, t)
                  stored == Stored(cacheFile)
              IN /\ ~r.raised
                 /\ (\/ cacheFile.kind # "json"
                     \/ \E a \in stored : NoTimestamp(a)
                     \/ \E a \in stored : NoFeed(a) /\ InWindow(a, t))
                    => r.val = <<>>
                 /\ (/\ cacheFile.kind = "json"
                     /\ \A a \in stored : ~NoTimestamp(a)
                     /\ \A a \in stored : NoFeed(a) => ~InWindow(a, t))
                    => Range(r.val) = {a \in stored : /\ ~NoFeed(a)
                                                       /\ InWindow(a, t)
                                                       /\ a["feed"] \in names}

\* The run has read a cache file that holds an expired article lacking a
\* feed next to a good one, and has got the good one.
C13_Witness ==
    /\ pc = "submit"
    /\ cacheFile = file0
    /\ \E a \in Stored(file0) : NoFeed(a) /\ ~NoTimestamp(a) /\ ~InWindow(a, now)
    /\ cached_articles # <<>>

(* ---------------------------------------------------------------- *)
(* C14                                                              *)
(* ---------------------------------------------------------------- *)
\* The articles of the futures that are finished.
Fetched == UNION {Range(futures[i].val) : i \in {j \in DOMAIN futures : Done(futures[j])}}

\* The publish time of entry e can be read.
Parseable(e) == "published_parsed" \in DOMAIN e /\ e["published_parsed"] # <<>>

\* The entries of es published at or after time from, in the order of es,
\* as articles of feed name.
ArticlesSince(name, es, from) ==
    LET kept == SelectSeq(es, LAMBDA e : Parseable(e) /\ e["published_parsed"][1] >= from)
    IN [i \in DOMAIN kept |->
           [feed |-> name,
            title |-> IF "title" \in DOMAIN kept[i] THEN kept[i]["title"] ELSE NoTitle,
            link |-> IF "link" \in DOMAIN kept[i] THEN kept[i]["link"] ELSE NoLink,
            timestamp |-> <<kept[i]["published_parsed"][1]>>]]

\* The feeds of the run that fetch_feed requests.
Requested == {f \in Range(feeds) : IsDict(f) /\ "name" \in DOMAIN f /\ "url" \in DOMAIN f}

\* C14, as stated: every article fetch_feed produces has its publish time in
\* the closed interval [now - window, now].
C14_ClosedWindow ==
    \A a \in Fetched : /\ now - fromisoformat(a["timestamp"]) <= MAX_AGE_HOURS
                        /\ fromisoformat(a["timestamp"]) <= now

\* C14, amended: the articles fetch_feed produces for a parsed feed are
\* exactly the entries with a parseable publish time not older than the
\* window (publish time >= now - window; entries dated after now are kept),
\* in the order of the feed, with feed set to the configured name.
C14_KeptEntries ==
    /\ \A i \in DOMAIN futures : \A a \in Range(futures[i].val) :
          /\ a["feed"] = feeds[i]["name"]
          /\ now - fromisoformat(a["timestamp"]) <= MAX_AGE_HOURS
    /\ (pc = "submit" /\ futures = <<>>) =>
          \A f \in Requested, es \in SeqsUpTo(Entries(now), MaxEntries + 1) :
              LET r == fetch_feed(f, [kind |-> "feed", entries |-> es], now)
              IN /\ ~r.exc /\ ~r.failed
                 /\ r.val = ArticlesSince(f["name"], es, now - MAX_AGE_HOURS)

\* A worker has returned an article made of an entry dated after now.
C14_Witness == \E a \in Fetched : fromisoformat(a["timestamp"]) > now

(* ---------------------------------------------------------------- *)
(* C15                                                              *)
(* ---------------------------------------------------------------- *)
\* C15, as stated: the commit of a run is one cache operation, write for a
\* merged list that is not empty and clear for an empty one; write_cache is
\* not called twice, and in a run with an empty merged list it is not called
\* at all, so no snapshot with an empty article list is on disk.
C15_OneCacheOperation ==
    /\ wcall # 2
    /\ (Merged /\ merged_articles = <<>>) =>
          /\ pc \notin {"makedirs", "open", "dump"}
          /\ ~(cacheFile.kind = "json" /\ cacheFile.data.articles = <<>>)

(* ---------------------------------------------------------------- *)
(* C16                                                              *)
(* ---------------------------------------------------------------- *)
\* C16, as stated: no article whose link is the empty string or the "No link"
\* placeholder is in merged_articles, and none is in the cache file.
C16_NoEmptyOrPlaceholder ==
    /\ \A i \in DOMAIN merged_articles : merged_articles[i]["link"] \notin {"", NoLink}
    /\ \A a \in Stored(cacheFile) : a["link"] \notin {"", NoLink}

(* ---------------------------------------------------------------- *)
(* C17                                                              *)
(* ---------------------------------------------------------------- *)
\* The number of articles returned by the futures before future i.
RECURSIVE Offset(_)
Offset(i) == IF i = 1 THEN 0 ELSE Offset(i - 1) + Len(futures[i - 1].val)

\* list holds, for each of the first n futures in the order of the feed
\* list, the articles its fetch_feed returned, side by side and in the order
\* returned, and nothing else.
FeedByFeed(list, n) ==
    /\ Len(list) = Offset(n + 1)
    /\ \A i \in 1..n : \A k \in DOMAIN futures[i].val :
          list[Offset(i) + k] = futures[i].val[k]

\* C17: in whatever order the workers start and finish, the list fetch_feeds
\* builds and returns is the results of the feeds in the order of the feed
\* list, each result in one piece and in the order fetch_feed produced it,
\* with no entry lost or twice.
C17_FeedListOrder ==
    /\ pc \in {"submit", "collect"} => FeedByFeed(results, collected)
    /\ pc = "merge" => Len(futures) = Len(feeds) /\ FeedByFeed(new_articles, Len(futures))

\* The worker of the second feed has returned two articles while the worker
\* of the first feed is still running: nothing has been collected.
C17_Witness ==
    /\ Len(futures) >= 2
    /\ futures[1].state = "running"
    /\ futures[2].state = "finished"
    /\ Len(futures[2].val) = 2
    /\ results = <<>>

(* ---------------------------------------------------------------- *)
(* C18                                                              *)
(* ---------------------------------------------------------------- *)
\* Article a, of the snapshot the run before left, has a link, a feed that
\* is still configured and a timestamp within the window of this run.
StillValid(a) ==
    /\ a["link"] # NoLink
    /\ a["feed"] \in current_feed_names
    /\ InWindow(a, now)

\* C18: an article with a link that the run before committed to the cache,
\* whose feed is still configured and which is still within the window, is
\* in the merged list of this run, as the cached or as a fresh copy with the
\* same link, whatever fetches fail.
C18_CachedSurvivesFailure ==
    (Merged /\ committed0) =>
        \A a \in Stored(file0) : StillValid(a) => a["link"] \in Links(merged_articles)

\* Every fetch of the run has failed, and the merged list holds an article
\* committed by the run before.
C18_Witness ==
    /\ Merged
    /\ committed0
    /\ futures # <<>>
    /\ \A i \in DOMAIN futures : futures[i].failed
    /\ \E a \in Stored(file0) : StillValid(a) /\ a["link"] \in Links(merged_articles)

(* ---------------------------------------------------------------- *)
(* C19                                                              *)
(* ---------------------------------------------------------------- *)
\* The positions of main inside write_cache or at the removal of the file.
CommitPcs == {"makedirs", "open", "dump", "cleanup"}

\* C19: the cache directory and the cache file change only in a step of the
\* commit of main, taken when every fetch has returned and no worker runs;
\* no step of fetch_feeds or of a fetch_feed call, successful or failed,
\* creates, writes or removes the cache file.
C19_OnlyCommitWrites ==
    [][ (cacheFile' # cacheFile \/ cacheDir' # cacheDir)
           => /\ pc \in CommitPcs
              /\ AllFetched
              /\ Running = {}
              /\ queue = <<>>
              /\ UNCHANGED <<futures, results, new_articles>> ]_vars

\* In the middle of the fetch phase, after a failed fetch and a fetch that
\* returned articles, the cache file is the one the run found.
C19_Witness ==
    /\ pc = "collect"
    /\ collected = 0
    /\ \E i \in DOMAIN futures : futures[i].state = "finished" /\ futures[i].failed
    /\ \E i \in DOMAIN futures : futures[i].val # <<>>
    /\ cacheFile = file0
    /\ cacheFile.kind = "json"

(* ---------------------------------------------------------------- *)
(* C20                                                              *)
(* ---------------------------------------------------------------- *)
\* C20, as stated: what is handed to the viewer after a selection is the link
\* of the article on the line the user chose, also when another merged
\* article has the same feed and title; an empty or placeholder link is
\* never handed over.
C20_OpensSelected ==
    /\ opened \notin {"", NoLink}
    /\ picked # 0 =>
          LET link == merged_articles[picked]["link"]
          IN opened = IF link \in {"", NoLink} THEN None ELSE link

====
